---- MODULE Spec2Model ----
(***************************************************************************)
(* Model of scripts/optimization/bayesian_optimize_weights.py and          *)
(* scripts/optimization/evaluate_config.py: the constrained optimization   *)
(* loop (ask / validate / evaluate / tell / track best / early stop /      *)
(* checkpoint), the evaluation bridge and the result store.                *)
(*                                                                         *)
(* Numbers.  Weights, targets, correlation, rmse, mae and regret are       *)
(* decimals in thousandths (0.65 is 650) and the objective weights are in  *)
(* tenths (0.6 is 6).  The code computes the objective with Python floats  *)
(* (IEEE 754 doubles), and so does the model: a decimal is converted to    *)
(* the nearest double and every product, sum and difference is rounded to  *)
(* 53 significant bits, ties to even.  An objective or a score told to     *)
(* the optimizer is the double d written as the pair <<e, r>>: e / 10000   *)
(* is the multiple of 1/10000 nearest to d and r is the distance of d      *)
(* from the double nearest to e / 10000, in units of 2^-66 (0.63 is        *)
(* <<6300, 0>>, 999.0 is <<9990000, 0>>, -998.9999999999999 is             *)
(* <<-9990000, 8388608>>).  Doubles are compared with Less and Greater.    *)
(* A float NaN and a JSON value that is no number are two integers         *)
(* outside the range of every metric (NaN, NON_NUMBER); the objective of   *)
(* a NaN metric is FloatNaN.                                               *)
(*                                                                         *)
(* Optional values.  Python's None is the empty tuple and a set value x    *)
(* is the one-element tuple <<x>>.                                         *)
(***************************************************************************)
EXTENDS Integers, Sequences, FiniteSets, TLC

\* ------------------------------------------------------------------------
\* Bounds of the model
\* ------------------------------------------------------------------------

\* The code's defaults are a budget of 150 iterations and a patience of
\* 25; it checkpoints every 10 iterations.  The trial history grows with
\* every iteration, so the model explores two kinds of run.  A short run
\* has a budget in 0..MaxIter and draws every iteration's candidate and
\* process outcome from the full sets below.  A long run has a budget of
\* CheckpointEvery or CheckpointEvery + 1 iterations, enough to reach the
\* first checkpoint and the iteration after it, and draws them from two
\* candidates and one process outcome.  The patience is in
\* 1..MaxPatience, or CheckpointEvery, or the code's 25.  A run starts in
\* an untouched workspace, in one with an artifact an earlier run left,
\* or (budgets 0 and 1) beside a simulation an earlier run left running.

\* Largest iteration budget n_iter of a short run.
MaxIter == 2

\* Largest of the small values of EARLY_STOP_PATIENCE a run is started with.
MaxPatience == 2

\* Number of iterations between two checkpoints: the literal 10 of
\* `if (i + 1) % 10 == 0`.
CheckpointEvery == 10

\* The module global EARLY_STOP_PATIENCE as the code ships it.
EARLY_STOP_PATIENCE == 25

\* Budgets n_iter a run is started with.
Budgets == (0..MaxIter) \cup {CheckpointEvery, CheckpointEvery + 1}

\* Values of the patience a run is started with.
Patiences == (1..MaxPatience) \cup {CheckpointEvery, EARLY_STOP_PATIENCE}

\* Encodings of sys.stdout a run is started with: one that encodes every
\* character and one that encodes ASCII only.
StdoutEncodings == {"utf-8", "ascii"}

\* A run with budget n is a long run.
LongRun(n) == n > MaxIter

\* ------------------------------------------------------------------------
\* Values
\* ------------------------------------------------------------------------

None == <<>>

Some(x) == <<x>>

\* The double nearest to e / 10000, as the model writes doubles: a float
\* literal with at most four decimals.
Float(e) == <<e, 0>>

\* The literal 999.0 of evaluate_with_objective.
PENALTY_SCORE == Float(9990000)

\* best_objective = -999.0 before the first trial.
INITIAL_BEST_OBJECTIVE == Float(-9990000)

CORRELATION_WEIGHT == 6

RMSE_WEIGHT == 3

RMSE_PENALTY_THRESHOLD == 750

\* The literal 0.80 of rmse_score, in thousandths.
RMSE_SCORE_ORIGIN == 800

\* The literal 2.0 of rmse_penalty, in tenths.
RMSE_PENALTY_FACTOR == 20

\* The value 999.0 that evaluate_config puts in rmse, mae and regret of a
\* failure result, in thousandths.
ERROR_METRIC == 999000

\* The float nan: json.load reads the JSON token NaN as float('nan').
NaN == -2000000000

\* A JSON value that json.load reads as something other than a number
\* (null, a string): evaluate_config passes it on as it is.
NON_NUMBER == -2000000001

\* The float nan as an objective or a score.
FloatNaN == <<NaN, 0>>

\* Candidates the optimizer may suggest: <<initial_weight, phase1_end,
\* phase2_end, phase1_target, phase2_target, max_weight>>.  All are inside
\* the per-dimension bounds of PARAM_SPACE; the first two are feasible, the
\* third violates the phase margin (15 <= 15 + 3).
Candidates ==
    { <<500, 10, 20, 650, 850, 900>>,
      <<450,  8, 15, 600, 800, 950>>,
      <<600, 15, 15, 550, 750, 850>> }

\* The two candidates a long run draws from: the first feasible, the
\* second not.
LongRunCandidates ==
    { <<500, 10, 20, 650, 850, 900>>,
      <<600, 15, 15, 550, 750, 850>> }

\* Numeric metrics an artifact of the simulation may carry (modes.hybrid).
ArtifactMetrics ==
    { [correlation |-> 1000, rmse |-> 700, mae |-> 500, avgRegret |-> 100],
      [correlation |-> 500,  rmse |-> 900, mae |-> 700, avgRegret |-> 200],
      [correlation |-> 0, rmse |-> 500000, mae |-> 400000, avgRegret |-> 300] }

\* Metrics whose keys are all there while the correlation is NaN, or is
\* null or a string.
NonFiniteMetrics ==
    { [correlation |-> NaN, rmse |-> 700, mae |-> 500, avgRegret |-> 100],
      [correlation |-> NON_NUMBER, rmse |-> 700, mae |-> 500,
       avgRegret |-> 100] }

NoMetrics == [correlation |-> 0, rmse |-> 0, mae |-> 0, avgRegret |-> 0]

\* Content of a cb-simulation-*.json file: JSON that carries the four
\* metric keys (whatever their values), text that json.load rejects, or
\* JSON without modes.hybrid.* keys.
ArtifactContents ==
    { [parse |-> "ok", data |-> m] : m \in ArtifactMetrics }
      \cup { [parse |-> "ok", data |-> m] : m \in NonFiniteMetrics }
      \cup { [parse |-> "invalid_json", data |-> NoMetrics],
             [parse |-> "missing_key", data |-> NoMetrics] }

\* The content of a file that is written in part: json.load rejects it.
PartialContent == [parse |-> "invalid_json", data |-> NoMetrics]

\* The artifact of a long run's simulations, and of the simulations of a
\* short run that write and then time out or fail.
GoodContent ==
    [parse |-> "ok",
     data |-> [correlation |-> 1000, rmse |-> 700, mae |-> 500,
               avgRegret |-> 100]]

\* What one run of the external simulation does.  kind: subprocess.run
\* gives up at the timeout, cannot start the process, or returns with the
\* exit status returncode.  wrote: the artifact the simulation left in the
\* results directory before subprocess.run returned or raised, if any.
\* late: the artifact a simulation that outlives the timeout (which kills
\* the shell only) writes or finishes afterwards, if any; it finishes the
\* file that it left in part (wrote = PartialContent).  Nothing ties the
\* exit status to the artifact: a simulation can write and then fail.
ProcessOutcomes ==
    { [kind |-> "oserror", returncode |-> 0, wrote |-> None, late |-> None],
      [kind |-> "timeout", returncode |-> 0, wrote |-> None, late |-> None],
      [kind |-> "timeout", returncode |-> 0, wrote |-> Some(GoodContent),
       late |-> None],
      [kind |-> "timeout", returncode |-> 0, wrote |-> None,
       late |-> Some(GoodContent)],
      [kind |-> "timeout", returncode |-> 0, wrote |-> Some(PartialContent),
       late |-> Some(GoodContent)],
      [kind |-> "exit", returncode |-> 1, wrote |-> None, late |-> None],
      [kind |-> "exit", returncode |-> 1, wrote |-> Some(GoodContent),
       late |-> None],
      [kind |-> "exit", returncode |-> 0, wrote |-> None, late |-> None] }
      \cup { [kind |-> "exit", returncode |-> 0, wrote |-> Some(c),
              late |-> None] : c \in ArtifactContents }

\* The process outcome of every iteration of a long run: the simulation
\* exits with status 0 and leaves an artifact with numeric metrics.
LongRunOutcomes ==
    { [kind |-> "exit", returncode |-> 0, wrote |-> Some(GoodContent),
       late |-> None] }

\* An artifact that is in the results directory when main starts, left
\* by an earlier run of the script: nothing in the code empties the
\* directory.
StaleArtifact ==
    [mtime |-> 1, by |-> 0,
     content |-> [parse |-> "ok",
                  data |-> [correlation |-> 500, rmse |-> 900, mae |-> 700,
                            avgRegret |-> 200]]]

\* A simulation that an earlier run of the script left running: the call
\* that started it timed out, and the timeout kills the shell only.  It
\* has yet to write its artifact.
EarlierSimulation ==
    [by |-> 0, content |-> GoodContent, begun |-> FALSE]

\* The workspace when main starts, <<files of testing/results, simulations
\* still running>>: untouched, with an artifact an earlier run left, or
\* with a simulation an earlier run left running.  `earlier` names the
\* earlier run as the writer of a file.
WorkspacesAtStart(earlier) ==
    { <<{}, {}>>,
      <<{[StaleArtifact EXCEPT !.by = earlier]}, {}>>,
      <<{}, {[EarlierSimulation EXCEPT !.by = earlier]}>> }

\* ------------------------------------------------------------------------
\* Pure functions
\* ------------------------------------------------------------------------

\* ---- Large natural numbers: sequences of digits to the base Limb, the
\* least significant first, without leading zeros (0 is <<>>).  Every
\* intermediate result stays below 2^31.

\* Base of the digits of a large natural number.
Limb == 32768

\* Bits in one digit.
LimbBits == 15

\* Bits of the significand of a double.
SignificandBits == 53

\* A double x is held as the integer x * 2^FractionBits.
FractionBits == 66

\* Extra bits a quotient is computed to before it is rounded.
GuardBits == 60

\* a without its leading zero digits.
RECURSIVE Trim(_)
Trim(a) ==
    IF a = <<>> \/ a[Len(a)] # 0 THEN a
    ELSE Trim(SubSeq(a, 1, Len(a) - 1))

\* The digits of the natural number n, and the number of the digits a.
RECURSIVE BigOfNat(_)
BigOfNat(n) ==
    IF n = 0 THEN <<>> ELSE <<n % Limb>> \o BigOfNat(n \div Limb)

RECURSIVE NatOfBig(_)
NatOfBig(a) ==
    IF a = <<>> THEN 0 ELSE Head(a) + Limb * NatOfBig(Tail(a))

\* a + b.
RECURSIVE AddCarry(_, _, _)
AddCarry(a, b, carry) ==
    IF a = <<>> /\ b = <<>>
    THEN IF carry = 0 THEN <<>> ELSE <<carry>>
    ELSE LET x == (IF a = <<>> THEN 0 ELSE Head(a))
                    + (IF b = <<>> THEN 0 ELSE Head(b)) + carry
         IN  <<x % Limb>>
               \o AddCarry(IF a = <<>> THEN a ELSE Tail(a),
                           IF b = <<>> THEN b ELSE Tail(b),
                           x \div Limb)

BigAdd(a, b) == AddCarry(a, b, 0)

RECURSIVE SubBorrow(_, _, _)
SubBorrow(a, b, borrow) ==
    IF a = <<>> THEN <<>>
    ELSE LET x == Head(a) - (IF b = <<>> THEN 0 ELSE Head(b)) - borrow
         IN  <<x % Limb>>
               \o SubBorrow(Tail(a), IF b = <<>> THEN b ELSE Tail(b),
                            IF x < 0 THEN 1 ELSE 0)

\* a - b for a >= b.
BigSub(a, b) == Trim(SubBorrow(a, b, 0))

RECURSIVE CmpFrom(_, _, _)
CmpFrom(a, b, k) ==
    IF k = 0 THEN 0
    ELSE IF a[k] > b[k] THEN 1
    ELSE IF a[k] < b[k] THEN -1
    ELSE CmpFrom(a, b, k - 1)

\* 1, 0, -1 as a is greater than, equal to, less than b.
BigCmp(a, b) ==
    IF Len(a) > Len(b) THEN 1
    ELSE IF Len(a) < Len(b) THEN -1
    ELSE CmpFrom(a, b, Len(a))

\* a * k + carry for k and carry below Limb.
RECURSIVE MulSmall(_, _, _)
MulSmall(a, k, carry) ==
    IF a = <<>>
    THEN IF carry = 0 THEN <<>> ELSE <<carry>>
    ELSE LET x == Head(a) * k + carry
         IN  <<x % Limb>> \o MulSmall(Tail(a), k, x \div Limb)

\* a * Limb^n.
ShiftLimbs(a, n) == IF a = <<>> THEN a ELSE [k \in 1..n |-> 0] \o a

\* a * b.
RECURSIVE MulLimbs(_, _)
MulLimbs(a, b) ==
    IF b = <<>> THEN <<>>
    ELSE BigAdd(MulSmall(a, Head(b), 0), ShiftLimbs(MulLimbs(a, Tail(b)), 1))

BigMul(a, b) == IF a = <<>> THEN <<>> ELSE Trim(MulLimbs(a, b))

\* Quotient and remainder of a by k, for k up to Limb.
RECURSIVE DivSmall(_, _)
DivSmall(a, k) ==
    IF a = <<>> THEN [q |-> <<>>, r |-> 0]
    ELSE LET hi == DivSmall(Tail(a), k)
             x == hi.r * Limb + Head(a)
         IN  [q |-> <<x \div k>> \o hi.q, r |-> x % k]

\* a * 2^n.
ShiftLeft(a, n) ==
    ShiftLimbs(Trim(MulSmall(a, 2 ^ (n % LimbBits), 0)), n \div LimbBits)

\* floor(a / 2^n).
ShiftRight(a, n) ==
    IF Len(a) <= n \div LimbBits THEN <<>>
    ELSE Trim(DivSmall(SubSeq(a, n \div LimbBits + 1, Len(a)),
                       2 ^ (n % LimbBits)).q)

\* The number of bits of x and of a.
RECURSIVE BitsOfNat(_)
BitsOfNat(x) == IF x = 0 THEN 0 ELSE 1 + BitsOfNat(x \div 2)

BitLength(a) ==
    IF a = <<>> THEN 0
    ELSE LimbBits * (Len(a) - 1) + BitsOfNat(a[Len(a)])

\* n rounded to SignificandBits significant bits, to nearest, ties to
\* even; sticky: the number rounded is a little more than n.
RoundSignificand(n, sticky) ==
    IF BitLength(n) <= SignificandBits THEN n
    ELSE LET s == BitLength(n) - SignificandBits
             q == ShiftRight(n, s)
             rem == BigSub(n, ShiftLeft(q, s))
             c == BigCmp(rem, ShiftLeft(<<1>>, s - 1))
             up == c > 0 \/ (c = 0 /\ (sticky \/ q[1] % 2 = 1))
         IN  ShiftLeft(IF up THEN BigAdd(q, <<1>>) ELSE q, s)

\* ---- Doubles: [neg, mag] stands for the double (-1)^neg * mag /
\* 2^FractionBits.  Every double the objective is computed from is such a
\* multiple for decimals in thousandths up to a magnitude of 2000.

\* |k / den| as a double: what float() and the parser make of a decimal.
MagnitudeOfDecimal(k, den) ==
    LET t == DivSmall(ShiftLeft(BigOfNat(k), FractionBits + GuardBits), den)
    IN  ShiftRight(RoundSignificand(Trim(t.q), t.r # 0), GuardBits)

Abs(x) == IF x < 0 THEN -x ELSE x

\* The double nearest to k / den.
DoubleOfDecimal(k, den) ==
    [neg |-> k < 0, mag |-> MagnitudeOfDecimal(Abs(k), den)]

DoubleZero == [neg |-> FALSE, mag |-> <<>>]

\* -a, a * b, a + b and a - b as the processor computes them: the exact
\* result rounded to the nearest double.
DoubleNeg(a) == IF a.mag = <<>> THEN a ELSE [a EXCEPT !.neg = ~a.neg]

DoubleMul(a, b) ==
    LET m == ShiftRight(RoundSignificand(BigMul(a.mag, b.mag), FALSE),
                        FractionBits)
    IN  [neg |-> m # <<>> /\ a.neg # b.neg, mag |-> m]

DoubleAdd(a, b) ==
    IF a.neg = b.neg
    THEN [neg |-> a.neg, mag |-> RoundSignificand(BigAdd(a.mag, b.mag), FALSE)]
    ELSE LET c == BigCmp(a.mag, b.mag)
         IN  IF c = 0 THEN DoubleZero
             ELSE IF c > 0
             THEN [neg |-> a.neg,
                   mag |-> RoundSignificand(BigSub(a.mag, b.mag), FALSE)]
             ELSE [neg |-> b.neg,
                   mag |-> RoundSignificand(BigSub(b.mag, a.mag), FALSE)]

DoubleSub(a, b) == DoubleAdd(a, DoubleNeg(b))

\* The double d as <<e, r>>: e the multiple of 1/10000 nearest to d and
\* r the distance of d from the double nearest to e/10000, in units of
\* 2^-FractionBits.
PairOfDouble(d) ==
    LET scaled == MulSmall(d.mag, 10000, 0)
        e == NatOfBig(ShiftRight(BigAdd(Trim(scaled),
                                        ShiftLeft(<<1>>, FractionBits - 1)),
                                 FractionBits))
        near == MagnitudeOfDecimal(e, 10000)
        r == IF BigCmp(d.mag, near) >= 0
             THEN NatOfBig(BigSub(d.mag, near))
             ELSE -NatOfBig(BigSub(near, d.mag))
    IN  IF d.neg THEN <<-e, -r>> ELSE <<e, r>>

\* x < y and x > y on doubles; a comparison with nan is false.
Less(x, y) ==
    /\ x # FloatNaN
    /\ y # FloatNaN
    /\ x[1] < y[1] \/ (x[1] = y[1] /\ x[2] < y[2])

Greater(x, y) == Less(y, x)

\* Unary minus of a float: -nan is nan.
Neg(x) == IF x = FloatNaN THEN FloatNaN ELSE <<-x[1], -x[2]>>

\* The floats of a decimal in thousandths and in tenths.
Thousandths(k) == DoubleOfDecimal(k, 1000)

Tenths(k) == DoubleOfDecimal(k, 10)

\* max(0, x) of the code: 0 unless x > 0.
MaxZero(x) == IF x.neg THEN DoubleZero ELSE x

\* Mutation of calculate_objective: the penalty starts at the target rmse
\* 0.70 instead of the threshold 0.75.
calculate_objective_TargetThreshold(correlation, rmse) ==
    IF correlation = NaN \/ rmse = NaN
    THEN FloatNaN
    ELSE LET correlation_score ==
                 DoubleMul(Thousandths(correlation),
                           Tenths(CORRELATION_WEIGHT))
             rmse_score ==
                 DoubleMul(DoubleSub(Thousandths(RMSE_SCORE_ORIGIN),
                                     Thousandths(rmse)),
                           Tenths(RMSE_WEIGHT))
             rmse_penalty ==
                 MaxZero(DoubleMul(DoubleSub(Thousandths(rmse),
                                             Thousandths(700)),
                                   Tenths(RMSE_PENALTY_FACTOR)))
             objective ==
                 DoubleSub(DoubleAdd(correlation_score, rmse_score),
                           rmse_penalty)
         IN  PairOfDouble(objective)

\* Mutation of calculate_objective: the penalty factor is 20.0, not 2.0.
calculate_objective_HeavyPenalty(correlation, rmse) ==
    IF correlation = NaN \/ rmse = NaN
    THEN FloatNaN
    ELSE LET correlation_score ==
                 DoubleMul(Thousandths(correlation),
                           Tenths(CORRELATION_WEIGHT))
             rmse_score ==
                 DoubleMul(DoubleSub(Thousandths(RMSE_SCORE_ORIGIN),
                                     Thousandths(rmse)),
                           Tenths(RMSE_WEIGHT))
             rmse_penalty ==
                 MaxZero(DoubleMul(DoubleSub(Thousandths(rmse),
                                             Thousandths(
                                                 RMSE_PENALTY_THRESHOLD)),
                                   Tenths(200)))
             objective ==
                 DoubleSub(DoubleAdd(correlation_score, rmse_score),
                           rmse_penalty)
         IN  PairOfDouble(objective)

\* The floats of the literals and module constants of calculate_objective:
\* CORRELATION_WEIGHT = 0.6, RMSE_WEIGHT = 0.3, 0.80,
\* RMSE_PENALTY_THRESHOLD = 0.75 and 2.0.
CorrelationWeight == Tenths(CORRELATION_WEIGHT)

RmseWeight == Tenths(RMSE_WEIGHT)

RmseScoreOrigin == Thousandths(RMSE_SCORE_ORIGIN)

RmsePenaltyThreshold == Thousandths(RMSE_PENALTY_THRESHOLD)

RmsePenaltyFactor == Tenths(RMSE_PENALTY_FACTOR)

\* correlation and rmse are decimals in thousandths, or NaN; the result
\* is the double the code returns.  With an argument that is no number
\* the multiplication of the code raises TypeError (see RaisesTypeError).
calculate_objective(correlation, rmse) ==
    IF correlation = NaN \/ rmse = NaN
    THEN FloatNaN
    ELSE LET rmse_float == Thousandths(rmse)
             correlation_score ==
                 DoubleMul(Thousandths(correlation), CorrelationWeight)
             rmse_score ==
                 DoubleMul(DoubleSub(RmseScoreOrigin, rmse_float),
                           RmseWeight)
             rmse_penalty ==
                 MaxZero(DoubleMul(DoubleSub(rmse_float,
                                             RmsePenaltyThreshold),
                                   RmsePenaltyFactor))
             objective ==
                 DoubleSub(DoubleAdd(correlation_score, rmse_score),
                           rmse_penalty)
         IN  PairOfDouble(objective)

\* Mutation of validate_config: the phase margin test is `<`, which lets
\* phase2_end = phase1_end + 3 through.
validate_config_LooseMargin(params) ==
    /\ ~(params[3] < params[2] + 3)
    /\ params[1] < params[4]
    /\ params[4] < params[5]
    /\ params[5] < params[6]

validate_config(params) ==
    LET initial_weight == params[1]
        phase1_end == params[2]
        phase2_end == params[3]
        phase1_target == params[4]
        phase2_target == params[5]
        max_weight == params[6]
    IN  IF phase2_end <= phase1_end + 3
        THEN FALSE
        ELSE IF ~(initial_weight < phase1_target
                  /\ phase1_target < phase2_target
                  /\ phase2_target < max_weight)
        THEN FALSE
        ELSE TRUE

\* The 'params' dict of a trial record.
ParamsDict(p) ==
    [initial_weight |-> p[1], phase1_end |-> p[2], phase2_end |-> p[3],
     phase1_target |-> p[4], phase2_target |-> p[5], max_weight |-> p[6]]

\* A failure result of evaluate_config.
ErrorResult(e) ==
    [correlation |-> 0, rmse |-> ERROR_METRIC, mae |-> ERROR_METRIC,
     regret |-> ERROR_METRIC, error |-> e]

\* Mutation of LatestFile: the least recently modified file is taken.
LatestFile_Oldest(dir) == CHOOSE f \in dir : \A g \in dir : f.mtime <= g.mtime

\* The file of the results directory with the largest modification time.
LatestFile(dir) == CHOOSE f \in dir : \A g \in dir : g.mtime <= f.mtime

\* A modification time later than that of every file of the directory.
LaterMtime(dir) ==
    IF dir = {} THEN 1 ELSE LatestFile(dir).mtime + 1

\* The results directory with one more file, the newest, written by the
\* simulation of `it`.
DirWithNewFile(dir, content, it) ==
    dir \cup { [mtime |-> LaterMtime(dir), by |-> it, content |-> content] }

\* The simulation of a call that timed out goes on running: the timeout
\* of subprocess.run kills the shell it started and not the simulation.
\* Orphan o is such a simulation: o.by the iteration it was started for,
\* o.content the artifact it has yet to write, o.begun whether part of
\* the file is already there.  The results directory after it wrote the
\* first part of its artifact (in_full false) or all of it, or the rest
\* of the artifact it had begun (in_full true).
DirAfterOrphan(dir, o, in_full) ==
    IF ~in_full
    THEN DirWithNewFile(dir, PartialContent, o.by)
    ELSE DirWithNewFile(
             { f \in dir : ~(f.by = o.by /\ f.content = PartialContent) },
             o.content, o.by)

\* The simulations still running once orphan o has written: o is through
\* when its artifact is complete.
OrphansAfter(os, o, in_full) ==
    IF in_full
    THEN os \ {o}
    ELSE (os \ {o}) \cup {[o EXCEPT !.begun = TRUE]}

\* The simulations still running after the call for iteration `it` ended
\* as po tells: one more when the simulation outlives the timeout.
OrphansAfterProcess(os, po, it) ==
    IF po.late = None THEN os
    ELSE os \cup {[by |-> it, content |-> po.late[1],
                    begun |-> po.wrote # None]}

\* The simulation of the call under way, as subprocess.run has just
\* started it: wrote is the artifact it has written in full, writing the
\* artifact it has begun and not finished.
SimulationStarted == [wrote |-> None, writing |-> None]

\* subprocess.run can end as po tells when the simulation did sim while
\* it waited: what po says was written is what sim wrote, a file left in
\* part is one the simulation goes on to finish, and a simulation that is
\* to write after the timeout has written nothing before it.
ProcessEndsAs(po, sim) ==
    IF sim.writing # None
    THEN /\ po.wrote = Some(PartialContent)
         /\ po.late = sim.writing
    ELSE /\ po.wrote = sim.wrote
         /\ po.late # None => po.wrote = None

\* The artifacts a simulation may write in full, and those it may leave
\* in part when its call gives up, among the process outcomes pos.
FullWrites(pos) ==
    { po.wrote[1] : po \in { q \in pos : q.wrote # None /\ q.late = None } }

PartWrites(pos) ==
    { po.late[1] : po \in { q \in pos : q.wrote # None /\ q.late # None } }

\* evaluate_config, given what the external process did (po) and the
\* results directory it left (dir): the dict it returns.
evaluate_config(po, dir) ==
    IF po.kind = "timeout"
    THEN ErrorResult("Timeout")
    ELSE IF po.kind = "oserror"
    THEN ErrorResult("OSError")
    ELSE IF po.returncode # 0
    THEN ErrorResult("stderr")
    ELSE IF dir = {}
    THEN ErrorResult("No results file")
    ELSE LET latest_file == LatestFile(dir)
         IN  IF latest_file.content.parse = "invalid_json"
             THEN ErrorResult("JSONDecodeError")
             ELSE IF latest_file.content.parse = "missing_key"
             THEN ErrorResult("KeyError")
             ELSE LET hybrid_metrics == latest_file.content.data
                  IN  [correlation |-> hybrid_metrics.correlation,
                       rmse |-> hybrid_metrics.rmse,
                       mae |-> hybrid_metrics.mae,
                       regret |-> hybrid_metrics.avgRegret]

\* evaluate_with_objective raises on what evaluate_config returned: the
\* result has no 'error' entry and calculate_objective multiplies a value
\* that is no number.
RaisesTypeError(res) ==
    /\ "error" \notin DOMAIN res
    /\ res.correlation = NON_NUMBER \/ res.rmse = NON_NUMBER

\* calculate_objective on the metrics the artifacts of the model carry,
\* computed once: <<correlation, rmse>> to the objective.
ObjectivesOfArtifacts ==
    [a \in { <<m.correlation, m.rmse>> :
                m \in { n \in ArtifactMetrics \cup NonFiniteMetrics :
                          n.correlation # NON_NUMBER } } |->
        calculate_objective(a[1], a[2])]

\* calculate_objective(correlation, rmse) as evaluate_with_objective
\* calls it (line 154).
ObjectiveOf(correlation, rmse) ==
    IF <<correlation, rmse>> \in DOMAIN ObjectivesOfArtifacts
    THEN ObjectivesOfArtifacts[<<correlation, rmse>>]
    ELSE calculate_objective(correlation, rmse)

\* The value evaluate_with_objective returns for what evaluate_config
\* returned.
ScoreOfResults(res) ==
    IF "error" \in DOMAIN res
    THEN PENALTY_SCORE
    ELSE Neg(ObjectiveOf(res.correlation, res.rmse))

\* ------------------------------------------------------------------------
\* State
\* ------------------------------------------------------------------------

VARIABLES
    n_iter,                 \* argument of run_optimization
    patience,               \* module global EARLY_STOP_PATIENCE
    stdout_encoding,        \* encoding of sys.stdout, the target of print
    pc,                     \* position of main / run_optimization
    i,                      \* loop variable of `for i in range(n_iter)`
    suggested_params,       \* candidate returned by optimizer.ask()
    results,                \* dict returned by the last evaluate_config call
    neg_objective,          \* value returned by evaluate_with_objective
    optimizer,              \* observations told: <<params, score>> in order
    all_results,            \* trial history
    best_objective,
    best_config,
    best_metrics,
    no_improvement_count,
    stop_reason,            \* "running", "early" (break) or "budget"
    proc,                   \* what the last external process run did
    simulation,             \* what the simulation of the call under way has
                            \* written while subprocess.run waits for it
    orphans,                \* the simulations of timed-out calls that
                            \* are still running, each with the artifact
                            \* it has yet to write or to finish
    eval_calls,             \* iterations in which evaluate_config was called
    eval_failed,            \* iterations whose evaluate_config result
                            \* carried an 'error' entry
    testing_results,        \* files of scripts/testing/results
    store,                  \* optimization_results_*.json, one per timestamp
    n_saves,                \* completed save_results calls
    fault,                  \* where an exception left main, if any
    report,                 \* what the summary of main printed
    asked,                  \* candidates optimizer.ask() returned, in order
    validate_calls,         \* iteration of every validate_config call made,
                            \* in the order of the calls
    call,                   \* a pure function applied on its own: its
                            \* arguments and, once applied, its value
    loops                   \* two loops evaluating at once on one shared
                            \* scripts/testing/results directory

vars ==
    <<n_iter, patience, pc, i, suggested_params, results, neg_objective,
      optimizer, all_results, best_objective, best_config, best_metrics,
      no_improvement_count, stop_reason, proc, eval_calls, eval_failed,
      testing_results, store, n_saves, fault, report, asked, call, loops,
      orphans, stdout_encoding, validate_calls, simulation>>

config_vars == <<n_iter, patience, stdout_encoding>>

\* State of the separate specifications below, idle in a run of main.
harness_vars == <<call, loops>>

trial_vars ==
    <<suggested_params, results, neg_objective, proc, eval_calls, eval_failed,
      testing_results, orphans, simulation>>

track_vars ==
    <<optimizer, all_results, best_objective, best_config, best_metrics,
      no_improvement_count>>

Last(s) == s[Len(s)]

\* ------------------------------------------------------------------------
\* Helpers of the loop
\* ------------------------------------------------------------------------

\* Mutation of Observation: the objective is told instead of its negation.
Observation_Objective(params, score) == <<params, Neg(score)>>

\* What optimizer.tell(suggested_params, neg_objective) registers.
Observation(params, score) == <<params, score>>

\* Mutation of TrialRecord: the record carries the 0-based loop index.
TrialRecord_ZeroBased(idx, params, objective) ==
    [iteration |-> idx,
     params |-> ParamsDict(params),
     objective |-> objective,
     is_valid |-> validate_config(params)]

\* Mutation of TrialRecord: the record carries the minimization score
\* instead of the objective.
TrialRecord_Score(idx, params, objective) ==
    [iteration |-> idx + 1,
     params |-> ParamsDict(params),
     objective |-> Neg(objective),
     is_valid |-> validate_config(params)]

\* The record appended to all_results for iteration index `idx`.
TrialRecord(idx, params, objective) ==
    [iteration |-> idx + 1,
     params |-> ParamsDict(params),
     objective |-> objective,
     is_valid |-> validate_config(params)]

\* Mutation of IsNewBest: a tie counts as an improvement.
IsNewBest_Ge(objective, best) ==
    Greater(objective, best) \/ (objective = best /\ objective # FloatNaN)

\* `if objective > best_objective`: False for a nan objective.
IsNewBest(objective, best) == Greater(objective, best)

\* Mutation of NextNoImprovementCount: a new best does not reset the
\* counter.
NextNoImprovementCount_NoReset(objective, best, count) == count + 1

\* no_improvement_count after the `if objective > best_objective` statement.
NextNoImprovementCount(objective, best, count) ==
    IF IsNewBest(objective, best) THEN 0 ELSE count + 1

\* Mutation of EarlyStop: the loop stops one trial before the patience.
EarlyStop_OffByOne(count, pat) == count + 1 >= pat

\* Mutation of EarlyStop: the loop stops one trial after the patience.
EarlyStop_Gt(count, pat) == count > pat

\* `if no_improvement_count >= EARLY_STOP_PATIENCE`
EarlyStop(count, pat) == count >= pat

\* Mutation of IsCheckpointIteration: the test uses the 0-based index.
IsCheckpointIteration_ZeroBased(idx) == idx % CheckpointEvery = 0

\* `if (i + 1) % 10 == 0`
IsCheckpointIteration(idx) == (idx + 1) % CheckpointEvery = 0

\* Mutation of Snapshot: with no best trial, best_objective is written as
\* the initial -999.0 instead of null.
Snapshot_Default(trials, config, metrics) ==
    [best_config |-> IF config # None THEN Some(ParamsDict(config[1]))
                     ELSE None,
     best_objective |-> IF metrics # None THEN Some(metrics[1].objective)
                        ELSE Some(INITIAL_BEST_OBJECTIVE),
     all_results |-> trials]

\* The JSON document save_results dumps (the 'timestamp' entry is the
\* file's place in the store).
Snapshot(trials, config, metrics) ==
    [best_config |-> IF config # None THEN Some(ParamsDict(config[1]))
                     ELSE None,
     best_objective |-> IF metrics # None THEN Some(metrics[1].objective)
                        ELSE None,
     all_results |-> trials]

\* The store after save_results wrote `snap`.  The file name carries the
\* time to the second: a write in the same second as the previous one
\* opens the same file again.
StoreAfterWrite(files, snap, same_second) ==
    IF same_second /\ files # <<>>
    THEN [files EXCEPT ![Len(files)] = snap]
    ELSE Append(files, snap)

\* A file that open(output_file, 'w') created or truncated and that
\* nothing was written to.
EmptyFile == [bytes |-> 0]

\* A file that holds the first bytes of a snapshot and not all of them:
\* no JSON document.
TruncatedFile == [bytes |-> 1]

\* sys.stdout cannot encode the signs that the messages of lines 128, 148
\* and 312 begin with: print raises UnicodeEncodeError.
PrintRaises == stdout_encoding = "ascii"

\* Where save_results raises: before the file is open (mkdir, open), in
\* json.dump or the flush at the end of the `with` block with nothing
\* written ("truncate") or with a part written ("write"), or in the print
\* that follows the `with` block.
SaveFailureStages == {"open", "truncate", "write", "print"}

\* The store after a save_results call that raised at `stage`.
StoreAfterFailedSave(files, snap, stage, same_second) ==
    IF stage = "open"
    THEN files
    ELSE IF stage = "truncate"
    THEN StoreAfterWrite(files, EmptyFile, same_second)
    ELSE IF stage = "write"
    THEN StoreAfterWrite(files, TruncatedFile, same_second)
    ELSE StoreAfterWrite(files, snap, same_second)

\* ------------------------------------------------------------------------
\* Initial state: main has parsed its arguments and run_optimization has
\* initialised its locals.
\* ------------------------------------------------------------------------

\* The locals of run_optimization before the first iteration, with no
\* evaluation made and no snapshot written by this run (`store` holds the
\* files this run writes: save_results reads no file and its file names
\* carry the time of the call).
LoopLocalsInit ==
    /\ i = 0
    /\ suggested_params = None
    /\ results = None
    /\ neg_objective = Float(0)
    /\ optimizer = <<>>
    /\ all_results = <<>>
    /\ best_objective = INITIAL_BEST_OBJECTIVE
    /\ best_config = None
    /\ best_metrics = None
    /\ no_improvement_count = 0
    /\ stop_reason = "running"
    /\ proc = None
    /\ eval_calls = {}
    /\ eval_failed = {}
    /\ simulation = None
    /\ store = <<>>
    /\ n_saves = 0
    /\ fault = "none"
    /\ report = "none"
    /\ asked = <<>>
    /\ validate_calls = <<>>

\* main starts.  The runs that start beside a simulation an earlier run
\* left running are those with a budget of at most one iteration.
Init ==
    /\ n_iter \in Budgets
    /\ patience \in Patiences
    /\ stdout_encoding \in StdoutEncodings
    /\ pc = "loop"
    /\ LoopLocalsInit
    /\ \E w \in WorkspacesAtStart(0) :
          /\ testing_results = w[1]
          /\ orphans = w[2]
    /\ orphans # {} => n_iter <= 1
    /\ call = None
    /\ loops = None

\* ------------------------------------------------------------------------
\* Actions
\* ------------------------------------------------------------------------

\* The candidates and the process outcomes the iterations of a run with
\* budget n draw from.
CandidatesOfRun(n) == IF LongRun(n) THEN LongRunCandidates ELSE Candidates

OutcomesOfRun(n) == IF LongRun(n) THEN LongRunOutcomes ELSE ProcessOutcomes

\* `for i in range(n_iter)` enters the body; optimizer.ask().
Ask ==
    /\ pc = "loop"
    /\ i < n_iter
    /\ \E c \in CandidatesOfRun(n_iter) :
          /\ suggested_params' = Some(c)
          /\ asked' = Append(asked, c)
    /\ pc' = "evaluate"
    /\ UNCHANGED <<config_vars, harness_vars, validate_calls,
                   i, results, neg_objective, proc, eval_calls,
                   eval_failed, testing_results, orphans, simulation,
                   track_vars,
                   stop_reason, store, n_saves, fault, report>>

\* `for i in range(n_iter)` is exhausted; run_optimization returns.
LoopExhausted ==
    /\ pc = "loop"
    /\ i >= n_iter
    /\ stop_reason' = "budget"
    /\ pc' = "final_save"
    /\ UNCHANGED <<config_vars, harness_vars, asked, validate_calls,
                   i, trial_vars, track_vars, store, n_saves,
                   fault, report>>

\* evaluate_config is called for iteration i + 1 and subprocess.run
\* starts the simulation and waits for it, for up to 300 s.
CallEvaluateConfig ==
    /\ eval_calls' = eval_calls \cup {i + 1}
    /\ simulation' = Some(SimulationStarted)
    /\ pc' = "subprocess"
    /\ UNCHANGED <<config_vars, harness_vars, asked,
                   i, suggested_params, results, neg_objective, proc,
                   eval_failed, testing_results, orphans,
                   track_vars, stop_reason, store, n_saves, fault, report>>

\* While subprocess.run waits, the simulation creates its artifact: at
\* once in full, or with part of its content first.
SimulationWritesArtifact ==
    /\ pc = "subprocess"
    /\ simulation = Some(SimulationStarted)
    /\ \/ \E c \in FullWrites(OutcomesOfRun(n_iter)) :
             /\ testing_results' = DirWithNewFile(testing_results, c, i + 1)
             /\ simulation' = Some([wrote |-> Some(c), writing |-> None])
       \/ \E c \in PartWrites(OutcomesOfRun(n_iter)) :
             /\ testing_results' =
                   DirWithNewFile(testing_results, PartialContent, i + 1)
             /\ simulation' = Some([wrote |-> None, writing |-> Some(c)])
    /\ UNCHANGED <<config_vars, harness_vars, asked, validate_calls,
                   pc, i, suggested_params, results, neg_objective, proc,
                   eval_calls, eval_failed, orphans, track_vars,
                   stop_reason, store, n_saves, fault, report>>

\* While subprocess.run waits, the simulation writes the rest of the
\* artifact it has begun.
SimulationCompletesArtifact ==
    /\ pc = "subprocess"
    /\ simulation[1].writing # None
    /\ testing_results' =
          DirWithNewFile(
              { f \in testing_results :
                  ~(f.by = i + 1 /\ f.content = PartialContent) },
              simulation[1].writing[1], i + 1)
    /\ simulation' = Some([wrote |-> simulation[1].writing,
                           writing |-> None])
    /\ UNCHANGED <<config_vars, harness_vars, asked, validate_calls,
                   pc, i, suggested_params, results, neg_objective, proc,
                   eval_calls, eval_failed, orphans, track_vars,
                   stop_reason, store, n_saves, fault, report>>

\* subprocess.run returns, gives up at the timeout or raises because the
\* process could not be started.  A simulation that outlives the timeout
\* is left running.
SubprocessRunEnds ==
    /\ pc = "subprocess"
    /\ \E po \in OutcomesOfRun(n_iter) :
          /\ ProcessEndsAs(po, simulation[1])
          /\ proc' = Some(po)
          /\ orphans' = OrphansAfterProcess(orphans, po, i + 1)
    /\ simulation' = None
    /\ pc' = "discover"
    /\ UNCHANGED <<config_vars, harness_vars, asked, validate_calls,
                   i, suggested_params, results, neg_objective, eval_calls,
                   eval_failed, testing_results, track_vars, stop_reason,
                   store, n_saves, fault, report>>

\* A simulation left running by a timed-out call, of this run or of an
\* earlier one, writes its artifact, in part or in full, or finishes the
\* artifact it has begun.  It is a process of its own: it does so at any
\* time, whatever main or a loop is doing, also while subprocess.run waits
\* for another simulation and after main has ended.
OrphanWrites ==
    /\ pc # "pure"
    /\ \E o \in orphans, in_full \in BOOLEAN :
          /\ o.begun => in_full
          /\ testing_results' = DirAfterOrphan(testing_results, o, in_full)
          /\ orphans' = OrphansAfter(orphans, o, in_full)
    /\ UNCHANGED <<config_vars, harness_vars, asked, validate_calls,
                   pc, i, suggested_params, results, neg_objective, proc,
                   simulation, eval_calls, eval_failed, track_vars,
                   stop_reason, store, n_saves, fault, report>>

\* Mutation of EvaluateInfeasible: the constraint check is missing and
\* the candidate goes to evaluate_config like a feasible one.
EvaluateInfeasible_Unchecked ==
    /\ pc = "evaluate"
    /\ ~validate_config(suggested_params[1])
    /\ CallEvaluateConfig
    /\ UNCHANGED validate_calls

\* evaluate_with_objective on a candidate that violates the constraints
\* (the call of validate_config at line 127 returns False):
\* it prints the warning of line 128 and returns the penalty.  A stdout
\* that cannot encode the warning makes print raise, and nothing catches
\* the exception.
EvaluateInfeasible ==
    /\ pc = "evaluate"
    /\ ~validate_config(suggested_params[1])
    /\ validate_calls' = Append(validate_calls, i + 1)
    /\ IF PrintRaises
       THEN /\ pc' = "crashed"
            /\ fault' = "evaluate"
            /\ UNCHANGED neg_objective
       ELSE /\ neg_objective' = PENALTY_SCORE
            /\ pc' = "tell"
            /\ UNCHANGED fault
    /\ UNCHANGED <<config_vars, harness_vars, asked,
                   i, suggested_params, results, proc, orphans, simulation,
                   eval_calls, eval_failed, testing_results, track_vars,
                   stop_reason, store, n_saves, report>>

\* evaluate_with_objective on a feasible candidate (the call of
\* validate_config at line 127 returns True) calls evaluate_config, which
\* starts the external simulation.
EvaluateFeasible ==
    /\ pc = "evaluate"
    /\ validate_config(suggested_params[1])
    /\ validate_calls' = Append(validate_calls, i + 1)
    /\ CallEvaluateConfig

\* The rest of evaluate_config (return code, glob, most recent file, its
\* metrics) and of evaluate_with_objective: the penalty for a result with
\* an 'error' entry, the negated objective otherwise.  A metric that is
\* no number makes calculate_objective raise TypeError, and a stdout that
\* cannot encode the message of line 148 makes the print for a result
\* with an 'error' entry raise UnicodeEncodeError; nothing catches either:
\* it leaves evaluate_with_objective, run_optimization and main.
DiscoverAndReturnScore ==
    /\ pc = "discover"
    /\ LET res == evaluate_config(proc[1], testing_results)
       IN  /\ results' = Some(res)
           /\ eval_failed' = IF "error" \in DOMAIN res
                             THEN eval_failed \cup {i + 1}
                             ELSE eval_failed
           /\ IF RaisesTypeError(res)
                 \/ ("error" \in DOMAIN res /\ PrintRaises)
              THEN /\ pc' = "crashed"
                   /\ fault' = "evaluate"
                   /\ UNCHANGED neg_objective
              ELSE /\ pc' = "tell"
                   /\ neg_objective' = ScoreOfResults(res)
                   /\ UNCHANGED fault
    /\ UNCHANGED <<config_vars, harness_vars, asked, validate_calls,
                   i, suggested_params, proc, eval_calls, testing_results,
                   orphans, simulation, track_vars, stop_reason, store,
                   n_saves, report>>

\* optimizer.tell raises on a nan score.  The optimizer is scikit-optimize:
\* it takes the value while it still draws its initial random points and
\* raises ValueError once it fits its surrogate model to the scores.
\* Nothing catches the exception.
TellRejected ==
    /\ pc = "tell"
    /\ neg_objective = FloatNaN
    /\ pc' = "crashed"
    /\ fault' = "tell"
    /\ UNCHANGED <<config_vars, harness_vars, asked, validate_calls,
                   i, trial_vars, track_vars, stop_reason,
                   store, n_saves, report>>

\* optimizer.tell, the trial record (whose 'is_valid' entry is a second
\* call of validate_config on the candidate, line 244), the best-so-far
\* update, the early stop test and the checkpoint test.
TellAndTrack ==
    /\ pc = "tell"
    /\ LET params == suggested_params[1]
           objective == Neg(neg_objective)
           trial == TrialRecord(i, params, objective)
           count == NextNoImprovementCount(objective, best_objective,
                                           no_improvement_count)
       IN  /\ optimizer' = Append(optimizer,
                                  Observation(params, neg_objective))
           /\ all_results' = Append(all_results, trial)
           /\ validate_calls' = Append(validate_calls, i + 1)
           /\ IF IsNewBest(objective, best_objective)
              THEN /\ best_objective' = objective
                   /\ best_config' = Some(params)
                   /\ best_metrics' = Some(trial)
              ELSE UNCHANGED <<best_objective, best_config, best_metrics>>
           /\ no_improvement_count' = count
           /\ IF EarlyStop(count, patience)
              THEN /\ stop_reason' = "early"
                   /\ pc' = "final_save"
                   /\ i' = i
              ELSE IF IsCheckpointIteration(i)
              THEN /\ pc' = "checkpoint"
                   /\ UNCHANGED <<stop_reason, i>>
              ELSE /\ pc' = "loop"
                   /\ i' = i + 1
                   /\ UNCHANGED stop_reason
    /\ UNCHANGED <<config_vars, harness_vars, asked,
                   trial_vars, store, n_saves, fault, report>>

\* save_results called from the loop writes its file.
CheckpointSaved ==
    /\ pc = "checkpoint"
    /\ ~PrintRaises
    /\ \E same_second \in BOOLEAN :
          store' = StoreAfterWrite(
                      store,
                      Snapshot(all_results, best_config, best_metrics),
                      same_second)
    /\ n_saves' = n_saves + 1
    /\ pc' = "loop"
    /\ i' = i + 1
    /\ UNCHANGED <<config_vars, harness_vars, asked, validate_calls,
                   trial_vars, track_vars, stop_reason, fault,
                   report>>

\* save_results called from the loop raises: the exception leaves
\* save_results, run_optimization and main (none of them catches it),
\* with the file not created, created or truncated and left empty, or
\* written in full.
CheckpointFailed ==
    /\ pc = "checkpoint"
    /\ \E stage \in SaveFailureStages, same_second \in BOOLEAN :
          /\ stage = "print" => PrintRaises
          /\ store' = StoreAfterFailedSave(
                      store,
                      Snapshot(all_results, best_config, best_metrics),
                      stage, same_second)
    /\ fault' = "checkpoint"
    /\ pc' = "crashed"
    /\ UNCHANGED <<config_vars, harness_vars, asked, validate_calls,
                   i, trial_vars, track_vars, stop_reason,
                   n_saves, report>>

\* Mutation of FinalSaved: main goes to the summary without saving.
FinalSaved_Skipped ==
    /\ pc = "final_save"
    /\ pc' = "summary"
    /\ UNCHANGED <<config_vars, harness_vars, asked, validate_calls,
                   i, trial_vars, track_vars, stop_reason,
                   store, n_saves, fault, report>>

\* main saves the final results.
FinalSaved ==
    /\ pc = "final_save"
    /\ ~PrintRaises
    /\ \E same_second \in BOOLEAN :
          store' = StoreAfterWrite(
                      store,
                      Snapshot(all_results, best_config, best_metrics),
                      same_second)
    /\ n_saves' = n_saves + 1
    /\ pc' = "summary"
    /\ UNCHANGED <<config_vars, harness_vars, asked, validate_calls,
                   i, trial_vars, track_vars, stop_reason,
                   fault, report>>

\* The final save_results raises: the exception leaves main, with the
\* file not created, created or truncated and left empty, or written in
\* full.
FinalSaveFailed ==
    /\ pc = "final_save"
    /\ \E stage \in SaveFailureStages, same_second \in BOOLEAN :
          /\ stage = "print" => PrintRaises
          /\ store' = StoreAfterFailedSave(
                      store,
                      Snapshot(all_results, best_config, best_metrics),
                      stage, same_second)
    /\ fault' = "final_save"
    /\ pc' = "crashed"
    /\ UNCHANGED <<config_vars, harness_vars, asked, validate_calls,
                   i, trial_vars, track_vars, stop_reason,
                   n_saves, report>>

\* main prints the summary.
Summary ==
    /\ pc = "summary"
    /\ report' = IF best_config # None
                 THEN "Best configuration found:"
                 ELSE "No valid configuration found!"
    /\ pc' = "done"
    /\ UNCHANGED <<config_vars, harness_vars, asked, validate_calls,
                   i, trial_vars, track_vars, stop_reason,
                   store, n_saves, fault>>

Next ==
    \/ Ask
    \/ LoopExhausted
    \/ EvaluateInfeasible
    \/ EvaluateFeasible
    \/ SimulationWritesArtifact
    \/ SimulationCompletesArtifact
    \/ SubprocessRunEnds
    \/ OrphanWrites
    \/ DiscoverAndReturnScore
    \/ TellRejected
    \/ TellAndTrack
    \/ CheckpointSaved
    \/ CheckpointFailed
    \/ FinalSaved
    \/ FinalSaveFailed
    \/ Summary

Spec == Init /\ [][Next]_vars

\* ------------------------------------------------------------------------
\* The pure functions applied on their own
\* ------------------------------------------------------------------------

\* Arguments validate_config is applied to: every dimension takes values
\* at and inside the bounds of PARAM_SPACE, so most candidates are inside
\* the bounds and many of those violate a joint constraint.
ValidateInputs ==
    {400, 550, 600} \X {5, 12, 15} \X {15, 16, 30}
        \X {550, 600, 750} \X {750, 900} \X {850, 900, 980}

\* Correlations (thousandths) calculate_objective is applied to.
ObjectiveCorrelationInputs == {0, 1, 14, 129, 500, 1000}

\* Rmse values (thousandths) calculate_objective is applied to: around the
\* penalty threshold 0.75 and around the rmse at which the objective gets
\* down to -999.0.
ObjectiveRmseInputs ==
    {0, 602, 604, 700, 749, 750, 751, 800, 900, 435100, 435104, 435105,
     435108, 435138, 435400, 500000}

PureInit ==
    /\ n_iter = 0
    /\ patience = 1
    /\ stdout_encoding = "utf-8"
    /\ pc = "pure"
    /\ LoopLocalsInit
    /\ testing_results = {}
    /\ orphans = {}
    /\ loops = None
    /\ \/ \E p \in ValidateInputs :
             call = [fn |-> "validate_config", args |-> p, ret |-> None]
       \/ \E c \in ObjectiveCorrelationInputs, r \in ObjectiveRmseInputs :
             call = [fn |-> "calculate_objective", args |-> <<c, r>>,
                     ret |-> None]

\* validate_config(params) is called and returns.
ApplyValidateConfig ==
    /\ pc = "pure"
    /\ call.fn = "validate_config"
    /\ call.ret = None
    /\ call' = [call EXCEPT !.ret = Some(validate_config(call.args))]
    /\ UNCHANGED <<config_vars, pc, i, trial_vars, track_vars, stop_reason,
                   store, n_saves, fault, report, asked,
                   validate_calls, loops>>

\* calculate_objective(correlation, rmse) is called and returns.
ApplyCalculateObjective ==
    /\ pc = "pure"
    /\ call.fn = "calculate_objective"
    /\ call.ret = None
    /\ call' = [call EXCEPT
                  !.ret = Some(calculate_objective(call.args[1],
                                                   call.args[2]))]
    /\ UNCHANGED <<config_vars, pc, i, trial_vars, track_vars, stop_reason,
                   store, n_saves, fault, report, asked,
                   validate_calls, loops>>

PureNext ==
    \/ ApplyValidateConfig
    \/ ApplyCalculateObjective

PureSpec == PureInit /\ [][PureNext]_vars

\* ------------------------------------------------------------------------
\* Two optimization loops evaluating against one results directory
\* ------------------------------------------------------------------------

Loops == {"A", "B"}

OtherLoop(l) == IF l = "A" THEN "B" ELSE "A"

\* Candidates that reach evaluate_config.
FeasibleCandidates == { c \in Candidates : validate_config(c) }

\* A loop that is not inside evaluate_with_objective.  wrote: the
\* artifact its simulation has written in full; writing: the artifact its
\* simulation has begun to write and not finished.
IdleLoop ==
    [at |-> "idle", params |-> None, proc |-> None, results |-> None,
     neg_objective |-> None, read_by |-> None, read_mtime |-> None,
     wrote |-> None, writing |-> None]

\* The ways subprocess.run ends: <<kind, returncode>>.
SubprocessEnds ==
    { <<"oserror", 0>>, <<"timeout", 0>>, <<"exit", 1>>, <<"exit", 0>> }

\* The two loops are started with the stdout they are given and with
\* the workspace as earlier runs left it (the writer of a file is a loop
\* here, and "earlier" for a file or a simulation of an earlier run).  The
\* loops that start beside a simulation an earlier run left running print
\* to a stdout that encodes every character.
ConcurrentInit ==
    /\ n_iter = 0
    /\ patience = 1
    /\ stdout_encoding \in StdoutEncodings
    /\ pc = "concurrent"
    /\ LoopLocalsInit
    /\ \E w \in WorkspacesAtStart("earlier") :
          /\ testing_results = w[1]
          /\ orphans = w[2]
    /\ orphans # {} => stdout_encoding = "utf-8"
    /\ call = None
    /\ loops = [l \in Loops |-> IdleLoop]

\* Loop l passes the constraint check for a candidate and enters
\* evaluate_config, which starts the external simulation and waits.
StartEvaluation(l) ==
    /\ pc = "concurrent"
    /\ loops[l].at = "idle"
    /\ \E c \in FeasibleCandidates :
          loops' = [loops EXCEPT ![l].at = "subprocess",
                                 ![l].params = Some(c)]
    /\ UNCHANGED <<config_vars, pc, i, trial_vars, track_vars, stop_reason,
                   store, n_saves, fault, report, asked,
                   validate_calls, call>>

\* The simulation of loop l is running: subprocess.run waits for it, or
\* has given up at the timeout, which kills the shell and not the
\* simulation.
SimulationRunning(l) ==
    \/ loops[l].at = "subprocess"
    \/ /\ loops[l].proc # None
       /\ loops[l].proc[1].kind = "timeout"

\* The simulation of loop l creates its artifact: at once in full, or
\* with part of its content first.  It does so while subprocess.run waits
\* for it, or at any time after the timeout.
SimulationWrites(l) ==
    /\ pc = "concurrent"
    /\ SimulationRunning(l)
    /\ loops[l].wrote = None
    /\ loops[l].writing = None
    /\ \E c \in ArtifactContents, in_full \in BOOLEAN :
          IF in_full
          THEN /\ testing_results' = DirWithNewFile(testing_results, c, l)
               /\ loops' = [loops EXCEPT ![l].wrote = Some(c)]
          ELSE /\ testing_results' =
                     DirWithNewFile(testing_results, PartialContent, l)
               /\ loops' = [loops EXCEPT ![l].writing = Some(c)]
    /\ UNCHANGED <<config_vars, pc, i, suggested_params, results,
                   neg_objective, proc, eval_calls, eval_failed, orphans,
                   simulation,
                   track_vars, stop_reason, store, n_saves, fault, report,
                   asked, validate_calls, call>>

\* The simulation of loop l writes the rest of its artifact.  It does so
\* before it exits, or after the timeout, which does not stop it.
SimulationCompletesWrite(l) ==
    /\ pc = "concurrent"
    /\ loops[l].writing # None
    /\ testing_results' =
          DirWithNewFile(
              { f \in testing_results :
                  ~(f.by = l /\ f.content = PartialContent) },
              loops[l].writing[1], l)
    /\ loops' = [loops EXCEPT ![l].wrote = loops[l].writing,
                              ![l].writing = None]
    /\ UNCHANGED <<config_vars, pc, i, suggested_params, results,
                   neg_objective, proc, eval_calls, eval_failed, orphans,
                   simulation,
                   track_vars, stop_reason, store, n_saves, fault, report,
                   asked, validate_calls, call>>

\* subprocess.run of loop l returns or raises.  A process that could not
\* be started has written nothing; a process that exited has finished
\* what it was writing.
SubprocessReturns(l) ==
    /\ pc = "concurrent"
    /\ loops[l].at = "subprocess"
    /\ \E e \in SubprocessEnds :
          /\ e[1] = "oserror" =>
                (loops[l].wrote = None /\ loops[l].writing = None)
          /\ e[1] = "exit" => loops[l].writing = None
          /\ loops' = [loops EXCEPT
                         ![l].at = "discover",
                         ![l].proc = Some([kind |-> e[1],
                                           returncode |-> e[2],
                                           wrote |-> loops[l].wrote,
                                           late |-> loops[l].writing])]
    /\ UNCHANGED <<config_vars, pc, i, trial_vars, track_vars, stop_reason,
                   store, n_saves, fault, report, asked,
                   validate_calls, call>>

\* The rest of evaluate_config in loop l: the return code, the glob, the
\* most recently modified file, its metrics; then the score
\* evaluate_with_objective returns, or the exception that leaves it: the
\* TypeError of a metric that is no number, or the UnicodeEncodeError of
\* the print of line 148 for a result with an 'error' entry on a stdout
\* that cannot encode the message.
DiscoverAndScore(l) ==
    /\ pc = "concurrent"
    /\ loops[l].at = "discover"
    /\ LET res == evaluate_config(loops[l].proc[1], testing_results)
           read == "error" \notin DOMAIN res
           raises == \/ RaisesTypeError(res)
                     \/ ("error" \in DOMAIN res /\ PrintRaises)
       IN  loops' = [loops EXCEPT
                       ![l].at = IF raises THEN "crashed" ELSE "scored",
                       ![l].results = Some(res),
                       ![l].neg_objective =
                           IF raises THEN None
                           ELSE Some(ScoreOfResults(res)),
                       ![l].read_by =
                           IF read
                           THEN Some(LatestFile(testing_results).by)
                           ELSE None,
                       ![l].read_mtime =
                           IF read
                           THEN Some(LatestFile(testing_results).mtime)
                           ELSE None]
    /\ UNCHANGED <<config_vars, pc, i, trial_vars, track_vars, stop_reason,
                   store, n_saves, fault, report, asked,
                   validate_calls, call>>

ConcurrentNext ==
    \/ \E l \in Loops : StartEvaluation(l)
    \/ \E l \in Loops : SimulationWrites(l)
    \/ \E l \in Loops : SimulationCompletesWrite(l)
    \/ \E l \in Loops : SubprocessReturns(l)
    \/ \E l \in Loops : DiscoverAndScore(l)
    \/ OrphanWrites

ConcurrentSpec == ConcurrentInit /\ [][ConcurrentNext]_vars

\* ------------------------------------------------------------------------
\* Vocabulary of the properties
\* ------------------------------------------------------------------------

\* The joint constraints on a candidate, on the 'params' dict of a trial:
\* phase2_end > phase1_end + 3 and
\* initial_weight < phase1_target < phase2_target < max_weight.
SatisfiesConstraints(pd) ==
    /\ pd.phase2_end > pd.phase1_end + 3
    /\ pd.initial_weight < pd.phase1_target
    /\ pd.phase1_target < pd.phase2_target
    /\ pd.phase2_target < pd.max_weight

\* The loop has left the `for` statement, by break or by exhaustion.
LoopTerminated == stop_reason # "running"

\* Every trial so far was infeasible or had a failed evaluation.
AllPenalised ==
    \A k \in 1..Len(all_results) :
        ~SatisfiesConstraints(all_results[k].params) \/ k \in eval_failed

\* Every trial so far improved strictly on the best before it.
AllImproving ==
    \A k \in 1..Len(all_results) :
        /\ Greater(all_results[k].objective, INITIAL_BEST_OBJECTIVE)
        /\ k > 1 => Greater(all_results[k].objective,
                            all_results[k - 1].objective)

\* Checkpoints the loop has written when it has terminated after the
\* trials in all_results: one per multiple of CheckpointEvery it ran
\* through without stopping early.
CheckpointsOfTerminatedLoop ==
    IF stop_reason = "early"
    THEN (Len(all_results) - 1) \div CheckpointEvery
    ELSE Len(all_results) \div CheckpointEvery

Min(a, b) == IF a <= b THEN a ELSE b

\* ------------------------------------------------------------------------
\* Properties
\* ------------------------------------------------------------------------

\* C1: in every iteration, a candidate that violates the constraints is
\* never passed to evaluate_config; the value told to the optimizer for it
\* is the penalty 999.0 and the objective of its trial record is -999.0.
C1_InfeasibleNeverEvaluated ==
    /\ \A k \in 1..Len(all_results) :
          ~SatisfiesConstraints(all_results[k].params) =>
              /\ k \notin eval_calls
              /\ optimizer[k][2] = PENALTY_SCORE
              /\ all_results[k].objective = Neg(PENALTY_SCORE)
    /\ (pc = "tell" /\ ~SatisfiesConstraints(ParamsDict(suggested_params[1])))
          => ((i + 1) \notin eval_calls /\ neg_objective = PENALTY_SCORE)

\* A run in which an infeasible candidate was tried after a feasible one
\* went to the evaluator.
C1_Witness ==
    /\ Len(all_results) >= 2
    /\ SatisfiesConstraints(all_results[1].params)
    /\ 1 \in eval_calls
    /\ ~SatisfiesConstraints(all_results[2].params)

\* C2: the step that records a trial makes the trial the best-so-far and
\* sets the no-improvement counter to 0 when its objective is strictly
\* greater than the running best; otherwise (ties, infeasible candidates
\* and failed evaluations included) it leaves best-so-far alone and adds
\* exactly 1 to the counter (a nan objective is not greater than anything).
\* No other step touches either.  The step that records a trial is the
\* one that takes main on from the tell without an exception.
C2_BestAndCounterUpdate ==
    [][ IF pc = "tell" /\ pc' \notin {"tell", "crashed"}
        THEN IF Greater(Neg(neg_objective), best_objective)
             THEN /\ best_objective' = Neg(neg_objective)
                  /\ best_config' = Some(suggested_params[1])
                  /\ best_metrics' = Some(Last(all_results'))
                  /\ Last(all_results').objective = Neg(neg_objective)
                  /\ Last(all_results').iteration = i + 1
                  /\ no_improvement_count' = 0
             ELSE /\ UNCHANGED <<best_objective, best_config, best_metrics>>
                  /\ no_improvement_count' = no_improvement_count + 1
        ELSE UNCHANGED <<best_objective, best_config, best_metrics,
                         no_improvement_count>> ]_vars

\* A trial tied with the best-so-far of an earlier trial and was counted
\* as no improvement.
C2_Witness ==
    /\ Len(all_results) >= 2
    /\ best_metrics # None
    /\ Last(all_results).objective = best_objective
    /\ best_metrics[1].iteration < Last(all_results).iteration
    /\ Some(Last(optimizer)[1]) # best_config
    /\ no_improvement_count >= 1

\* C3: the loop stops early at exactly the first iteration at which the
\* counter reaches the patience: at the break the counter equals the
\* patience, wherever the loop is still running the counter is below it,
\* and after the break there is no further ask, evaluation or tell.
C3_EarlyStopExactlyAtPatience ==
    /\ stop_reason = "early" =>
          /\ no_improvement_count = patience
          /\ pc \in {"final_save", "summary", "done", "crashed"}
          /\ Len(all_results) = i + 1
          /\ Len(optimizer) = i + 1
          /\ \A k \in eval_calls : k <= i + 1
    /\ pc \in {"loop", "evaluate", "subprocess", "discover", "tell",
              "checkpoint"} =>
          /\ stop_reason = "running"
          /\ no_improvement_count < patience

\* The loop stopped early with budget left, at its second non-improving
\* trial in a row.
C3_Witness ==
    /\ stop_reason = "early"
    /\ pc = "done"
    /\ Len(all_results) < n_iter
    /\ patience >= 2

\* C4: when every trial improved strictly on the best before it, a loop
\* that has terminated ran exactly n_iter iterations, terminated by budget
\* exhaustion, and its best-so-far is the last trial.
C4_AllImprovingRunsToBudget ==
    (LoopTerminated /\ AllImproving) =>
        /\ stop_reason = "budget"
        /\ Len(all_results) = n_iter
        /\ n_iter > 0 =>
              /\ best_objective = Last(all_results).objective
              /\ best_config = Some(Last(optimizer)[1])
              /\ best_metrics = Some(Last(all_results))
              /\ Last(all_results).iteration = n_iter

\* A run of at least two trials, each improving, has ended with a patience
\* smaller than the budget.
C4_Witness ==
    /\ pc = "done"
    /\ n_iter >= 2
    /\ patience < n_iter
    /\ Len(all_results) = n_iter
    /\ AllImproving

\* C5: when every candidate was infeasible or failed evaluation, a loop
\* that has terminated has best_config and best_metrics unset, the
\* snapshot main saves has best_config and best_objective null, and main
\* ends printing "No valid configuration found!" with no exception.
C5_NoValidConfiguration ==
    (LoopTerminated /\ AllPenalised) =>
        /\ best_config = None
        /\ best_metrics = None
        /\ pc \in {"summary", "done"} =>
              /\ store # <<>>
              /\ Last(store).best_config = None
              /\ Last(store).best_objective = None
              /\ Last(store).all_results = all_results
        /\ pc = "done" =>
              /\ report = "No valid configuration found!"
              /\ fault = "none"

\* A finished run with an infeasible trial and a failed evaluation and no
\* other trial.
C5_Witness ==
    /\ pc = "done"
    /\ AllPenalised
    /\ \E k \in 1..Len(all_results) :
          ~SatisfiesConstraints(all_results[k].params)
    /\ eval_failed # {}

\* C6 as stated: when every candidate was infeasible or failed evaluation,
\* the loop terminates by budget exhaustion, having run all n_iter
\* iterations, for any budget and patience.
C6_AllPenalisedStopsByBudget ==
    (LoopTerminated /\ AllPenalised) =>
        /\ stop_reason = "budget"
        /\ Len(all_results) = n_iter

\* C6 amended: when every candidate was infeasible or failed evaluation,
\* every trial counts as no improvement, so the loop runs exactly
\* min(n_iter, patience) iterations; it stops early, at iteration
\* `patience`, when patience <= n_iter and terminates by budget exhaustion
\* only when n_iter < patience.
C6_AllPenalisedStopsAtPatience ==
    (LoopTerminated /\ AllPenalised) =>
        /\ Len(all_results) = Min(n_iter, patience)
        /\ no_improvement_count = Len(all_results)
        /\ stop_reason = "early" <=> patience <= n_iter
        /\ stop_reason = "budget" <=> n_iter < patience

\* A run of ten infeasible trials was stopped early at the tenth, one
\* iteration before its budget was used up.
C6_Witness ==
    /\ stop_reason = "early"
    /\ AllPenalised
    /\ Len(all_results) = patience
    /\ Len(all_results) > MaxPatience
    /\ Len(all_results) < n_iter

\* The state of the loop right after iteration Len(all_results): back at
\* the head of the `for` statement, or just out of it by break.
IterationJustCompleted ==
    /\ Len(all_results) > 0
    /\ \/ pc = "loop"
       \/ pc = "final_save" /\ stop_reason = "early"

\* The newest file of the store holds exactly the trials run so far and
\* the in-memory best-so-far.
NewestSnapshotIsCurrent ==
    /\ store # <<>>
    /\ Last(store).all_results = all_results
    /\ Len(Last(store).all_results) = Len(all_results)
    /\ Last(store).best_objective =
          (IF best_config = None THEN None ELSE Some(best_objective))
    /\ Last(store).best_config =
          (IF best_config = None THEN None
           ELSE Some(ParamsDict(best_config[1])))

\* C7 as stated: after every iteration whose number is a multiple of the
\* checkpoint interval, a snapshot of that iteration has been persisted,
\* holding exactly the trials so far and the in-memory best-so-far, also
\* when the loop stops early at that iteration.
C7_CheckpointAtEveryMultiple ==
    (IterationJustCompleted /\ Len(all_results) % CheckpointEvery = 0) =>
        /\ NewestSnapshotIsCurrent
        /\ n_saves = Len(all_results) \div CheckpointEvery

\* C7 amended: after every iteration whose number is a multiple of the
\* checkpoint interval and at which the loop does not stop early, the loop
\* goes on only once a snapshot of that iteration has been persisted,
\* holding exactly the trials so far and the in-memory best-so-far; at an
\* iteration at which the loop stops early the break comes before the
\* checkpoint test and run_optimization writes no checkpoint for it.
C7_CheckpointUnlessEarlyStop ==
    /\ (pc = "loop" /\ Len(all_results) > 0
          /\ Len(all_results) % CheckpointEvery = 0) =>
          /\ NewestSnapshotIsCurrent
          /\ n_saves = Len(all_results) \div CheckpointEvery
    /\ (pc = "final_save" /\ stop_reason = "early") =>
          n_saves = (Len(all_results) - 1) \div CheckpointEvery

\* The loop is past a checkpoint iteration with a best-so-far set, and the
\* checkpoint is in the store.
C7_Witness ==
    /\ pc = "loop"
    /\ Len(all_results) = CheckpointEvery
    /\ best_config # None
    /\ no_improvement_count > 0
    /\ n_saves = 1

\* C8: whenever the loop has terminated, by early stop or by budget
\* exhaustion, and main has gone on to its summary, the final state
\* (complete trial history and best-so-far) has been persisted once more
\* after the last iteration: one save beyond the loop's checkpoints,
\* whatever the iteration number at termination.
C8_FinalStatePersisted ==
    pc \in {"summary", "done"} =>
        /\ LoopTerminated
        /\ NewestSnapshotIsCurrent
        /\ n_saves = CheckpointsOfTerminatedLoop + 1

\* main has finished a run that stopped early at an iteration that is no
\* multiple of the checkpoint interval, with a best-so-far set.
C8_Witness ==
    /\ pc = "done"
    /\ stop_reason = "early"
    /\ Len(all_results) % CheckpointEvery # 0
    /\ best_config # None
    /\ n_saves = CheckpointsOfTerminatedLoop + 1

\* C9 as stated: a failure to write a checkpoint does not abort the loop,
\* which goes on with the next iteration.
C9_CheckpointFailureDoesNotAbort ==
    ~(pc = "crashed" /\ fault = "checkpoint")

\* The external evaluation of the current iteration did not succeed, as
\* evaluate_config tells: the process timed out, could not be run, exited
\* with a nonzero status, left the results directory without any artifact,
\* or the artifact read has missing or malformed content (text that is
\* no JSON, a missing key, a metric that is no number).
EvaluationDidNotSucceed ==
    /\ proc # None
    /\ \/ proc[1].kind \in {"timeout", "oserror"}
       \/ proc[1].returncode # 0
       \/ testing_results = {}
       \/ \E f \in testing_results :
             /\ \A g \in testing_results : g.mtime <= f.mtime
             /\ \/ f.content.parse # "ok"
                \/ f.content.data.correlation \in {NaN, NON_NUMBER}

\* C10 as stated: every outcome of the external evaluation other than
\* success is returned by evaluate_config as a result with an 'error'
\* entry and never as an exception, the loop scores it with the penalty
\* (999.0 told, -999.0 recorded) and records the trial like any other.
C10_FailuresUniformlyPenalised ==
    /\ fault # "evaluate"
    /\ (pc = "tell" /\ (i + 1) \in eval_calls /\ EvaluationDidNotSucceed) =>
          /\ "error" \in DOMAIN results[1]
          /\ (i + 1) \in eval_failed
          /\ neg_objective = PENALTY_SCORE
    /\ \A k \in eval_failed :
          k <= Len(all_results) =>
              /\ optimizer[k][2] = PENALTY_SCORE
              /\ all_results[k].objective = Neg(PENALTY_SCORE)
              /\ all_results[k].iteration = k

\* The fields run_optimization puts in a trial record.
TrialRecordFields == {"iteration", "params", "objective", "is_valid"}

\* The newest iteration that called evaluate_config; `results` is what that
\* call returned.
LastEvaluatedIteration ==
    CHOOSE k \in eval_calls : \A m \in eval_calls : m <= k

\* C11 as stated: the trial record appended for a candidate whose
\* evaluation failed preserves the failure reason: the record of the
\* newest failed evaluation has an entry, beyond the four every record
\* has, that holds the 'error' evaluate_config returned.
C11_FailureReasonInTrialRecord ==
    (eval_calls # {}
       /\ LastEvaluatedIteration \in eval_failed
       /\ LastEvaluatedIteration <= Len(all_results)) =>
        \E f \in DOMAIN all_results[LastEvaluatedIteration]
                    \ TrialRecordFields :
            all_results[LastEvaluatedIteration][f] = results[1].error

\* C12 as stated: every save_results call produces its own snapshot file
\* and leaves the files of earlier calls alone, so after k calls the store
\* holds k snapshots.
C12_OneSnapshotPerSave ==
    fault = "none" => Len(store) = n_saves

\* The number of validate_config calls made in iteration k.
ValidateCallsIn(k) ==
    Cardinality({ j \in 1..Len(validate_calls) : validate_calls[j] = k })

\* Each iteration performs, in this order and once, ask, the evaluation
\* (only of a feasible candidate), tell and then the checkpoint when one
\* is due, and is complete before the next ask; the candidate told is the
\* one that iteration's ask returned and the score told is the negation
\* of the objective of that iteration's trial record.
AskEvaluateTellInOrder ==
    /\ Len(optimizer) = Len(all_results)
    /\ eval_calls \subseteq 1..Len(asked)
    /\ \A k \in 1..Len(all_results) :
          /\ optimizer[k][1] = asked[k]
          /\ optimizer[k][2] = Neg(all_results[k].objective)
          /\ all_results[k].params = ParamsDict(asked[k])
          /\ k \in eval_calls <=> SatisfiesConstraints(ParamsDict(asked[k]))
    /\ pc = "loop" =>
          /\ Len(asked) = i
          /\ Len(optimizer) = i
          /\ n_saves = i \div CheckpointEvery
    /\ pc = "evaluate" =>
          /\ Len(asked) = i + 1
          /\ suggested_params = Some(asked[i + 1])
          /\ Len(optimizer) = i
          /\ (i + 1) \notin eval_calls
          /\ n_saves = i \div CheckpointEvery
    /\ pc \in {"subprocess", "discover"} =>
          /\ Len(asked) = i + 1
          /\ Len(optimizer) = i
          /\ (i + 1) \in eval_calls
          /\ SatisfiesConstraints(ParamsDict(asked[i + 1]))
    /\ pc = "tell" =>
          /\ Len(asked) = i + 1
          /\ Len(optimizer) = i
          /\ (i + 1) \in eval_calls
                <=> SatisfiesConstraints(ParamsDict(asked[i + 1]))
    /\ pc = "checkpoint" =>
          /\ Len(asked) = i + 1
          /\ Len(optimizer) = i + 1
          /\ (i + 1) % CheckpointEvery = 0
          /\ n_saves = i \div CheckpointEvery

\* C13 as stated: each iteration performs, in this order and exactly
\* once, ask, validate, evaluate (only if feasible), tell and then the
\* optional checkpoint, and completes before the next ask; the candidate
\* told is the one asked and the score told is the negation of the
\* objective recorded.
C13_IterationStepsOnce ==
    /\ AskEvaluateTellInOrder
    /\ \A k \in 1..Len(all_results) : ValidateCallsIn(k) = 1

\* C13 amended: each iteration performs, in this order, ask, validate,
\* evaluate (only if feasible), tell, validate once more for the trial
\* record, and then the optional checkpoint, and completes before the next
\* ask; ask, evaluate, tell and checkpoint happen once and validate twice,
\* the first call before the evaluation and the second after tell; the
\* candidate told is the one asked and the score told is the negation of
\* the objective recorded.
C13_IterationStepsInOrder ==
    /\ AskEvaluateTellInOrder
    /\ \A j \in 1..Len(validate_calls) : validate_calls[j] = (j + 1) \div 2
    /\ \A k \in 1..Len(all_results) :
          /\ ValidateCallsIn(k) = 2
          /\ all_results[k].is_valid = validate_config(asked[k])
    /\ pc \in {"loop", "evaluate"} => Len(validate_calls) = 2 * i
    /\ pc \in {"subprocess", "discover", "tell"} =>
          Len(validate_calls) = 2 * i + 1
    /\ pc = "checkpoint" => Len(validate_calls) = 2 * (i + 1)

\* The ask of the eleventh iteration has happened after a tenth iteration
\* that was not evaluated and ended with its checkpoint, and a first one
\* that was evaluated.
C13_Witness ==
    /\ pc = "evaluate"
    /\ i = CheckpointEvery
    /\ n_saves = 1
    /\ 1 \in eval_calls
    /\ CheckpointEvery \notin eval_calls
    /\ ValidateCallsIn(1) = 2
    /\ ValidateCallsIn(CheckpointEvery) = 2

\* C14: the trial history is append-only with one record per iteration:
\* a step either leaves it alone or, when it records a trial (the step
\* after the evaluation, unless optimizer.tell raises), appends one
\* record; no step, a save included, changes or removes an earlier record,
\* and the k-th record carries iteration index k.
C14_HistoryAppendOnly ==
    [][ /\ Len(all_results') >= Len(all_results)
        /\ SubSeq(all_results', 1, Len(all_results)) = all_results
        /\ Len(all_results') = Len(all_results) + 1
              <=> (pc = "tell" /\ pc' \notin {"tell", "crashed"})
        /\ Len(all_results') # Len(all_results) + 1
              => all_results' = all_results
        /\ \A k \in 1..Len(all_results') : all_results'[k].iteration = k
      ]_vars

\* Eleven trials are recorded and a checkpoint was saved on the way.
C14_Witness ==
    /\ Len(all_results) = CheckpointEvery + 1
    /\ n_saves >= 1
    /\ \A k \in 1..Len(all_results) : all_results[k].iteration = k

\* A pure function has been applied and has returned.
Applied(fn) == pc = "pure" /\ call.fn = fn /\ call.ret # None

\* C15: validate_config returns True exactly when
\* phase2_end > phase1_end + 3 and
\* initial_weight < phase1_target < phase2_target < max_weight, and False
\* for every other candidate, candidates inside the per-dimension bounds
\* included; the call changes nothing else.
C15_ValidateConfigExact ==
    pc = "pure" =>
        /\ Applied("validate_config") =>
              (call.ret[1] = TRUE <=>
                  /\ call.args[3] > call.args[2] + 3
                  /\ call.args[1] < call.args[4]
                  /\ call.args[4] < call.args[5]
                  /\ call.args[5] < call.args[6])
        /\ call.fn = "validate_config" =>
              /\ call.args \in ValidateInputs
              /\ LoopLocalsInit

\* validate_config has returned False for a candidate that is inside the
\* bounds of every dimension, has its weights in order, and has
\* phase2_end = phase1_end + 3.
C15_Witness ==
    /\ Applied("validate_config")
    /\ call.ret = Some(FALSE)
    /\ call.args = <<400, 12, 15, 550, 750, 850>>

\* The penalty calculate_objective takes off correlation * 0.6 +
\* (0.80 - rmse) * 0.3, in units of 1/10000.
PenaltyOf(c, r) == 6 * c + 3 * (800 - r) - calculate_objective(c, r)[1]

\* C16: calculate_objective(correlation, rmse) equals correlation * 0.6 +
\* (0.80 - rmse) * 0.3 - penalty, where penalty is 0 for every
\* rmse <= 0.75 and 2 * (rmse - 0.75), strictly increasing in rmse, for
\* every rmse > 0.75.
C16_ObjectiveFormula ==
    Applied("calculate_objective") =>
        LET c == call.args[1]
            r == call.args[2]
            penalty == 6 * c + 3 * (800 - r) - call.ret[1][1]
        IN  /\ r <= 750 => penalty = 0
            /\ r > 750 => penalty = 20 * (r - 750)
            /\ \A r2 \in ObjectiveRmseInputs :
                  (r > 750 /\ r2 > r) => PenaltyOf(c, r2) > penalty

\* calculate_objective(0.5, 0.90) has returned -0.03.
C16_Witness ==
    /\ Applied("calculate_objective")
    /\ call.args = <<500, 900>>
    /\ call.ret[1][1] = -300

\* C17 as stated: for every correlation in [0, 1] and rmse >= 0 the
\* objective is strictly greater than -999.0, so its negation is never the
\* penalty 999.0.
C17_ObjectiveAbovePenalty ==
    (Applied("calculate_objective")
        /\ call.args[1] >= 0 /\ call.args[1] <= 1000
        /\ call.args[2] >= 0) =>
        /\ Greater(call.ret[1], Neg(PENALTY_SCORE))
        /\ Neg(call.ret[1]) # PENALTY_SCORE

\* C17 amended: for correlation in [0, 1] the objective is strictly
\* greater than -999.0 for every rmse from 0 to 435.1 and strictly less
\* than -999.0 for every rmse from 435.4 on; between the two it can be
\* -999.0 itself, as it is for correlation 0.014 and rmse 435.108, whose
\* negation is the penalty 999.0.
C17_ObjectiveAbovePenaltyUpToRmse ==
    (Applied("calculate_objective")
        /\ call.args[1] >= 0 /\ call.args[1] <= 1000
        /\ call.args[2] >= 0) =>
        LET c == call.args[1]
            r == call.args[2]
        IN  /\ r <= 435100 => Greater(call.ret[1], Neg(PENALTY_SCORE))
            /\ r >= 435400 => Less(call.ret[1], Neg(PENALTY_SCORE))
            /\ (c = 14 /\ r = 435108) => Neg(call.ret[1]) = PENALTY_SCORE

\* calculate_objective has returned more than -999.0 for rmse 435.1.
C17_Witness ==
    /\ Applied("calculate_objective")
    /\ call.args[2] = 435100
    /\ Greater(call.ret[1], Neg(PENALTY_SCORE))
    /\ Less(call.ret[1], Float(-9980000))

\* A resumed run's tracking state after it has gone through the first k
\* trials of a snapshot's trial list: it starts from a best of -999.0 with
\* no candidate and a counter of 0, and a trial is a new best only when
\* its objective is strictly greater.
RECURSIVE Replay(_, _)
Replay(trials, k) ==
    IF k = 0
    THEN [best_objective |-> INITIAL_BEST_OBJECTIVE,
          best_config |-> None,
          no_improvement_count |-> 0]
    ELSE LET before == Replay(trials, k - 1)
             trial == trials[k]
         IN  IF Greater(trial.objective, before.best_objective)
             THEN [best_objective |-> trial.objective,
                   best_config |-> Some(trial.params),
                   no_improvement_count |-> 0]
             ELSE [before EXCEPT !.no_improvement_count = @ + 1]

\* The tracking state the loop holds in memory, with the best candidate in
\* the form a snapshot stores candidates in.
TrackingInMemory ==
    [best_objective |-> best_objective,
     best_config |-> IF best_config = None THEN None
                     ELSE Some(ParamsDict(best_config[1])),
     no_improvement_count |-> no_improvement_count]

\* C18: whenever save_results has written a snapshot, replaying the
\* snapshot's ordered trial list through the update rule (strict
\* improvement over an initial best of -999.0) gives exactly the best
\* objective, the best candidate and the no-improvement counter the loop
\* holds in memory at that moment.
C18_SnapshotResumable ==
    [][n_saves' # n_saves =>
          LET snap == Last(store')
          IN  /\ Replay(snap.all_results, Len(snap.all_results))
                    = TrackingInMemory'
              /\ snap.best_config = TrackingInMemory'.best_config]_vars

\* The checkpoint of the tenth iteration has been written after a best
\* was found, later trials did not improve on it and one trial was
\* infeasible.
C18_Witness ==
    /\ pc = "loop"
    /\ n_saves = 1
    /\ Len(Last(store).all_results) = CheckpointEvery
    /\ all_results = Last(store).all_results
    /\ best_config # None
    /\ no_improvement_count > 1
    /\ \E k \in 1..Len(all_results) : ~all_results[k].is_valid

\* The artifacts in the results directory written by loop l's simulation.
ArtifactsOf(l) == { f \in testing_results : f.by = l }

\* Loop l's evaluate_config has returned metrics read from an artifact
\* that the other loop's simulation wrote.
ReadOthersArtifact(l) ==
    /\ loops[l].at = "scored"
    /\ loops[l].read_by = Some(OtherLoop(l))

\* C19: with two loops evaluating against one results directory,
\* evaluate_config returns the metrics of the most recently modified
\* artifact whichever loop's simulation wrote it: a loop gets the other
\* loop's artifact exactly when that artifact is newer than every artifact
\* of its own that was there when it looked, so there is an interleaving
\* in which a candidate is scored with the metrics of another candidate.
C19_LatestArtifactWhoeverWroteIt ==
    pc = "concurrent" =>
        \A l \in Loops :
            (loops[l].at = "scored" /\ loops[l].read_by # None) =>
                /\ \E f \in testing_results :
                      /\ f.by = loops[l].read_by[1]
                      /\ f.mtime = loops[l].read_mtime[1]
                      /\ f.content.parse = "ok"
                      /\ loops[l].results[1].correlation
                            = f.content.data.correlation
                      /\ loops[l].results[1].rmse = f.content.data.rmse
                      /\ loops[l].neg_objective[1]
                            = Neg(ObjectiveOf(f.content.data.correlation,
                                              f.content.data.rmse))
                /\ \A g \in ArtifactsOf(l) :
                      g.mtime <= loops[l].read_mtime[1]
                /\ ReadOthersArtifact(l) <=>
                      \E f \in ArtifactsOf(OtherLoop(l)) :
                          /\ f.mtime = loops[l].read_mtime[1]
                          /\ \A g \in ArtifactsOf(l) : g.mtime < f.mtime

\* Loop A's simulation wrote an artifact with metrics for A's candidate,
\* loop B's simulation wrote another one for a different candidate before
\* A looked, and A's candidate has been scored with B's metrics.
C19_Witness ==
    /\ pc = "concurrent"
    /\ ReadOthersArtifact("A")
    /\ loops["B"].params # None
    /\ loops["A"].params # loops["B"].params
    /\ \E own \in ArtifactsOf("A") :
          /\ own.content.parse = "ok"
          /\ loops["A"].proc[1].wrote = Some(own.content)
          /\ own.content.data.correlation \notin {NaN, NON_NUMBER}
          /\ loops["A"].neg_objective[1]
                # Neg(ObjectiveOf(own.content.data.correlation,
                                  own.content.data.rmse))

\* How far the for loop is from its end: six steps for every iteration
\* that has not begun, less the steps taken inside the current one.
LoopRank ==
    6 * (n_iter - i)
      - (CASE pc = "loop" -> 0
           [] pc = "evaluate" -> 1
           [] pc = "subprocess" -> 2
           [] pc = "discover" -> 3
           [] pc = "tell" -> 4
           [] pc = "checkpoint" -> 5
           [] OTHER -> 6)

\* The for loop has been left: run_optimization has returned, or an
\* exception raised by the evaluation of a candidate or by telling its
\* score has ended it.
LoopLeft ==
    \/ pc \in {"final_save", "summary", "done"}
    \/ pc = "crashed" /\ fault \in {"evaluate", "tell", "final_save"}

\* C20 as stated: whatever the budget, the candidates and the evaluation
\* outcomes, the loop never completes more than n_iter iterations and
\* every step of a running loop (a step that moves main, unlike a write
\* of a simulation left running) takes it nearer to its end, so it
\* terminates; it is left only with the no-improvement counter at the
\* patience (early stop) or with n_iter iterations completed (budget);
\* the counter never exceeds the patience.
C20_LoopTerminatesWithinBudget ==
    [][/\ Len(all_results') <= n_iter
       /\ no_improvement_count' <= patience
       /\ (~LoopTerminated /\ pc' # pc) =>
             (LoopRank' < LoopRank /\ LoopRank' >= -6)
       /\ LoopLeft' =>
             \/ /\ stop_reason' = "early"
                /\ no_improvement_count' = patience
             \/ /\ stop_reason' = "budget"
                /\ Len(all_results') = n_iter
                /\ no_improvement_count' < patience]_vars

\* The recorded trials whose candidate was feasible and whose evaluation
\* returned metrics.
SuccessfulTrials ==
    { k \in 1..Len(all_results) : k \in eval_calls /\ k \notin eval_failed }

\* The trials of `trials` whose objective is a number and is exceeded by
\* no other such trial of `trials`.
MaximalTrials(trials) ==
    { k \in trials :
        /\ all_results[k].objective # FloatNaN
        /\ \A j \in trials :
              ~Greater(all_results[j].objective, all_results[k].objective) }

\* Best-so-far is the earliest of the trials of `trials` with the greatest
\* objective.
BestIsEarliestMaximumOf(trials) ==
    \E k \in MaximalTrials(trials) :
        /\ \A j \in MaximalTrials(trials) : k <= j
        /\ best_objective = all_results[k].objective
        /\ best_metrics = Some(all_results[k])
        /\ ParamsDict(best_config[1]) = all_results[k].params

\* C21 as stated: best-so-far is set if and only if at least one trial was
\* feasible and evaluated successfully; when set, its objective is the
\* maximum over those trials and its candidate that of the earliest trial
\* with this maximum.
C21_BestSetIffSomeSuccess ==
    pc \in {"loop", "evaluate", "final_save", "done"} =>
        /\ best_config # None <=> SuccessfulTrials # {}
        /\ best_config # None => BestIsEarliestMaximumOf(SuccessfulTrials)

\* The successful trials whose objective is a number above the initial
\* best -999.0.
SuccessfulTrialsAboveInitialBest ==
    { k \in SuccessfulTrials :
        /\ Greater(all_results[k].objective, INITIAL_BEST_OBJECTIVE) }

\* C21 amended: best-so-far is set if and only if at least one trial was
\* feasible, evaluated successfully and has an objective strictly greater
\* than -999.0 (which a nan objective is not); when set, its objective is
\* the maximum over all successful trials with a numeric objective and
\* its candidate that of the earliest trial with this maximum.
C21_BestSetIffSomeSuccessAboveInitialBest ==
    pc \in {"loop", "evaluate", "final_save", "done"} =>
        /\ best_config # None <=> SuccessfulTrialsAboveInitialBest # {}
        /\ best_config # None => BestIsEarliestMaximumOf(SuccessfulTrials)

\* Two successful trials of different candidates with the same objective,
\* above -999.0: best-so-far is the first.
C21_Witness ==
    /\ pc = "final_save"
    /\ SuccessfulTrials = {1, 2}
    /\ Greater(all_results[1].objective, INITIAL_BEST_OBJECTIVE)
    /\ all_results[1].objective = all_results[2].objective
    /\ all_results[1].params # all_results[2].params
    /\ best_metrics = Some(all_results[1])

\* C22: with a single loop on the workspace, whenever evaluate_config has
\* returned metrics without an 'error' entry, the external process run for
\* that candidate exited with status 0 and wrote an artifact, and the
\* metrics are those of that artifact; a run that exits with status 0
\* without writing an artifact is reported as a failure.
C22_MetricsFromOwnArtifact ==
    (pc = "tell" /\ (i + 1) \in eval_calls) =>
        /\ "error" \notin DOMAIN results[1] =>
              /\ proc[1].kind = "exit"
              /\ proc[1].returncode = 0
              /\ proc[1].wrote # None
              /\ \E f \in testing_results :
                    /\ f.by = i + 1
                    /\ f.content = proc[1].wrote[1]
                    /\ f.content.parse = "ok"
                    /\ results[1].correlation = f.content.data.correlation
                    /\ results[1].rmse = f.content.data.rmse
                    /\ results[1].mae = f.content.data.mae
                    /\ results[1].regret = f.content.data.avgRegret
        /\ (proc[1].kind = "exit" /\ proc[1].returncode = 0
              /\ proc[1].wrote = None) =>
              "error" \in DOMAIN results[1]

====
